---- MODULE Spec2Model ----
(***************************************************************************)
(* A model of pbr's semantic version type (pbr/pkgversion/semantic.py),    *)
(* its version-string parser and the git-history version inference         *)
(* (pbr/pkgversion/metadata.py, pbr/git.py, pbr/common.py) and the         *)
(* VersionInfo object (pbr/pkgversion/__init__.py).                        *)
(*                                                                         *)
(* Representation.  A Python str is a sequence of one-character strings    *)
(* (<<"1", ".", "0">> is '1.0').  An optional value is a sequence of       *)
(* length at most one: None is <<>> and the value x is <<x>>.  A call      *)
(* that may raise returns an outcome record: [exc |-> "", val |-> v] for   *)
(* a normal return of v and [exc |-> "TypeError"] for a raise.             *)
(***************************************************************************)
EXTENDS Integers, Sequences, FiniteSets, TLC

VARIABLES pc, inp, out

vars == <<pc, inp, out>>

-----------------------------------------------------------------------------
(* Bounds of the model. *)

MaxComponent == 1
MaxPrerelease == 1
MaxDevCount == 2
MaxLog == 2
MaxTags == 2
MaxLines == 2

\* The calls made on one VersionInfo object.
MaxCalls == 3

-----------------------------------------------------------------------------
(* Python values. *)

None == <<>>

Some(x) == <<x>>

Ok(v) == [exc |-> "", val |-> v]

Raise(e) == [exc |-> e]

Raised(r) == r.exc # ""

Raises(r, e) == r.exc = e

IsTrue(r) == r.exc = "" /\ r.val

IsFalse(r) == r.exc = "" /\ ~r.val

\* F applied to the value of e: e is evaluated once, before F.
With(e, F(_)) == CHOOSE r \in {F(v) : v \in {e}} : TRUE

\* The least element of a non-empty set of integers.
Least(S) == CHOOSE i \in S : \A j \in S : i <= j

Digits == <<"0", "1", "2", "3", "4", "5", "6", "7", "8", "9">>

Letters ==
    <<"a", "b", "c", "d", "e", "f", "g", "h", "i", "j", "k", "l", "m",
      "n", "o", "p", "q", "r", "s", "t", "u", "v", "w", "x", "y", "z">>

isdigit_char(c) == \E i \in 1..Len(Digits) : Digits[i] = c

\* str.isdigit(): false for the empty string.
isdigit(s) == Len(s) > 0 /\ \A i \in 1..Len(s) : isdigit_char(s[i])

DigitValue(c) == (CHOOSE i \in 1..Len(Digits) : Digits[i] = c) - 1

\* The code point order of the letters, as str comparison uses it.
LetterOrd(c) == CHOOSE i \in 1..Len(Letters) : Letters[i] = c

\* The value of the decimal numeral s.
int_digits(s) ==
    LET value[i \in 0..Len(s)] ==
            IF i = 0 THEN 0 ELSE 10 * value[i - 1] + DigitValue(s[i])
    IN  value[Len(s)]

\* int(s) for a str s over the model's characters (digits, lower-case
\* letters, '.', '-'): the value of an optionally signed decimal numeral,
\* ValueError otherwise.
int(s) ==
    IF isdigit(s) THEN Ok(int_digits(s))
    ELSE IF Len(s) > 1 /\ s[1] = "-" /\ isdigit(Tail(s))
    THEN Ok(0 - int_digits(Tail(s)))
    ELSE Raise("ValueError")

\* The decimal numeral of n >= 0.
str_nat(n) ==
    LET numeral[k \in Nat] ==
            IF k < 10 THEN <<Digits[k + 1]>>
            ELSE numeral[k \div 10] \o <<Digits[(k % 10) + 1]>>
    IN  numeral[n]

\* str(n) for an int n.
str_int(n) == IF n < 0 THEN <<"-">> \o str_nat(0 - n) ELSE str_nat(n)

\* s.split(sep) for a one-character separator: the pieces between
\* consecutive separators (position 0 and Len(s) + 1 standing for the ends).
split(s, sep) ==
    LET at == {i \in 1..Len(s) : s[i] = sep}
        cut(j) == IF j = 0 THEN 0
                  ELSE IF j > Cardinality(at) THEN Len(s) + 1
                  ELSE CHOOSE i \in at :
                           Cardinality({p \in at : p < i}) = j - 1
    IN  [j \in 1..(Cardinality(at) + 1) |->
            SubSeq(s, cut(j - 1) + 1, cut(j) - 1)]

\* The length of the longest prefix of s whose characters are all among
\* chars (Digits for isdigit, Letters for isalpha).
takewhile_len(chars, s) ==
    LET stop == {i \in 1..Len(s) : \A k \in 1..Len(chars) : chars[k] # s[i]}
    IN  IF stop = {} THEN Len(s) ELSE Least(stop) - 1

\* s[n:]
drop(s, n) == SubSeq(s, n + 1, Len(s))

\* s[:n]
take(s, n) == SubSeq(s, 1, IF n < Len(s) THEN n ELSE Len(s))

\* s.startswith(p)
startswith(s, p) == Len(s) >= Len(p) /\ SubSeq(s, 1, Len(p)) = p

\* s < t for two str of letters: decided at the first position where they
\* differ, else by length.
str_lt(s, t) ==
    LET differ == {i \in 1..Len(s) : i <= Len(t) /\ s[i] # t[i]}
    IN  IF differ = {} THEN Len(s) < Len(t)
        ELSE LetterOrd(s[Least(differ)]) < LetterOrd(t[Least(differ)])

\* Truth value of an optional int (None and 0 are false).
truthy_int(o) == o # None /\ o[1] # 0

\* Truth value of an optional str (None and '' are false).
truthy_str(o) == o # None /\ Len(o[1]) > 0

-----------------------------------------------------------------------------
(* semantic.py: class SemanticVersion. *)

\* __init__ without the test of lines 53-56.
SemanticVersion_unchecked(major, minor, patch, prerelease_type, prerelease, dev_count, githash) ==
    Ok([major |-> major, minor |-> minor, patch |-> patch,
        prerelease_type |-> prerelease_type,
        prerelease |-> IF truthy_str(prerelease_type)
                          /\ ~truthy_int(prerelease)
                       THEN Some(0) ELSE prerelease,
        dev_count |-> dev_count,
        githash |-> githash])

\* SemanticVersion.__init__
SemanticVersion(major, minor, patch, prerelease_type, prerelease, dev_count, githash) ==
    IF prerelease_type # None /\ dev_count # None
    THEN Raise("ValueError")
    ELSE Ok([major |-> major, minor |-> minor, patch |-> patch,
             prerelease_type |-> prerelease_type,
             prerelease |-> IF truthy_str(prerelease_type)
                               /\ ~truthy_int(prerelease)
                            THEN Some(0) ELSE prerelease,
             dev_count |-> dev_count,
             githash |-> githash])

\* SemanticVersion.__eq__ between two SemanticVersion objects: the equality
\* of their __dict__.
__eq__(self, other) == self = other

\* Comparison of two (major, minor, patch) tuples.
tuple3_lt(a, b) ==
    \/ a[1] < b[1]
    \/ a[1] = b[1] /\ a[2] < b[2]
    \/ a[1] = b[1] /\ a[2] = b[2] /\ a[3] < b[3]

\* The tuple comparison of lines 83-85 with the prerelease number first.
pre_lt_number_first(self, other) ==
    \/ self.prerelease[1] < other.prerelease[1]
    \/ /\ self.prerelease = other.prerelease
       /\ str_lt(self.prerelease_type[1], other.prerelease_type[1])

\* Comparison of two (prerelease_type, prerelease) tuples.
pre_lt(self, other) ==
    \/ str_lt(self.prerelease_type[1], other.prerelease_type[1])
    \/ /\ self.prerelease_type = other.prerelease_type
       /\ self.prerelease[1] < other.prerelease[1]

\* __lt__ with the equal-hash case of two dev versions answering True.
__lt__equal_hash_less(self, other) ==
    LET this_tuple == <<self.major, self.minor, self.patch>>
        other_tuple == <<other.major, other.minor, other.patch>>
    IN  IF tuple3_lt(this_tuple, other_tuple) THEN Ok(TRUE)
        ELSE IF tuple3_lt(other_tuple, this_tuple) THEN Ok(FALSE)
        ELSE IF truthy_str(self.prerelease_type)
        THEN IF truthy_str(other.prerelease_type)
             THEN Ok(pre_lt(self, other))
             ELSE IF truthy_int(other.dev_count)
             THEN Raise("TypeError")
             ELSE Ok(TRUE)
        ELSE IF truthy_int(self.dev_count)
        THEN IF truthy_int(other.dev_count)
             THEN IF self.dev_count[1] < other.dev_count[1] THEN Ok(TRUE)
                  ELSE IF self.dev_count[1] > other.dev_count[1]
                  THEN Ok(FALSE)
                  ELSE IF self.githash = other.githash THEN Ok(TRUE)
                  ELSE Raise("TypeError")
             ELSE IF truthy_str(other.prerelease_type)
             THEN Raise("TypeError")
             ELSE Ok(TRUE)
        ELSE Ok(FALSE)

\* SemanticVersion.__lt__
__lt__(self, other) ==
    LET this_tuple == <<self.major, self.minor, self.patch>>
        other_tuple == <<other.major, other.minor, other.patch>>
    IN  IF tuple3_lt(this_tuple, other_tuple) THEN Ok(TRUE)
        ELSE IF tuple3_lt(other_tuple, this_tuple) THEN Ok(FALSE)
        ELSE IF truthy_str(self.prerelease_type)
        THEN IF truthy_str(other.prerelease_type)
             THEN Ok(pre_lt(self, other))
             ELSE IF truthy_int(other.dev_count)
             THEN Raise("TypeError")
             ELSE Ok(TRUE)
        ELSE IF truthy_int(self.dev_count)
        THEN IF truthy_int(other.dev_count)
             THEN IF self.dev_count[1] < other.dev_count[1] THEN Ok(TRUE)
                  ELSE IF self.dev_count[1] > other.dev_count[1]
                  THEN Ok(FALSE)
                  ELSE IF self.githash = other.githash THEN Ok(FALSE)
                  ELSE Raise("TypeError")
             ELSE IF truthy_str(other.prerelease_type)
             THEN Raise("TypeError")
             ELSE Ok(TRUE)
        ELSE Ok(FALSE)

\* SemanticVersion.__le__: self == other or self < other
__le__(self, other) ==
    IF __eq__(self, other) THEN Ok(TRUE) ELSE __lt__(self, other)

\* SemanticVersion.__ge__: not self < other
__ge__(self, other) ==
    LET r == __lt__(self, other) IN IF Raised(r) THEN r ELSE Ok(~r.val)

\* SemanticVersion.__gt__: not self <= other
__gt__(self, other) ==
    LET r == __le__(self, other) IN IF Raised(r) THEN r ELSE Ok(~r.val)

\* SemanticVersion.__ne__
__ne__(self, other) == ~__eq__(self, other)

\* SemanticVersion.brief_string
brief_string(self) ==
    str_int(self.major) \o <<".">> \o str_int(self.minor) \o <<".">>
        \o str_int(self.patch)

\* SemanticVersion.decrement; the constructor call cannot raise.
decrement(self) ==
    LET new_patch == IF self.patch # 0 THEN self.patch - 1 ELSE 9999
        new_minor == IF self.patch # 0 THEN self.minor
                     ELSE IF self.minor # 0 THEN self.minor - 1 ELSE 9999
        new_major == IF self.patch # 0 \/ self.minor # 0 THEN self.major
                     ELSE IF self.major # 0 THEN self.major - 1 ELSE 0
    IN  SemanticVersion(new_major, new_minor, new_patch,
                        None, None, None, None).val

\* increment with the patch level raised for a prerelease version too.
increment_patch_always(self, minor, major) ==
    LET pre == truthy_str(self.prerelease_type)
        new_major == IF major THEN self.major + 1 ELSE self.major
        new_minor == IF major THEN 0
                     ELSE IF minor THEN self.minor + 1 ELSE self.minor
        new_patch == IF major \/ minor THEN 0 ELSE self.patch + 1
        keep == pre /\ ~minor /\ ~major
    IN  SemanticVersion(new_major, new_minor, new_patch,
                        IF keep THEN self.prerelease_type ELSE None,
                        IF keep THEN Some(self.prerelease[1] + 1) ELSE None,
                        None, None).val

\* increment without the new_minor = 0 of line 201.
increment_major_keeps_minor(self, minor, major) ==
    LET pre == truthy_str(self.prerelease_type)
        new_major == IF major THEN self.major + 1 ELSE self.major
        new_minor == IF minor THEN self.minor + 1 ELSE self.minor
        new_patch == IF major \/ minor THEN 0
                     ELSE IF pre THEN self.patch ELSE self.patch + 1
        keep == pre /\ ~minor /\ ~major
    IN  SemanticVersion(new_major, new_minor, new_patch,
                        IF keep THEN self.prerelease_type ELSE None,
                        IF keep THEN Some(self.prerelease[1] + 1) ELSE None,
                        None, None).val

\* increment that leaves the prerelease number of a prerelease version as it
\* is.
increment_same_serial(self, minor, major) ==
    LET pre == truthy_str(self.prerelease_type)
        plain == minor \/ major \/ ~pre
    IN  SemanticVersion(IF major THEN self.major + 1 ELSE self.major,
                        IF major THEN 0
                        ELSE IF minor THEN self.minor + 1 ELSE self.minor,
                        IF major \/ minor THEN 0
                        ELSE IF pre THEN self.patch ELSE self.patch + 1,
                        IF plain THEN None ELSE self.prerelease_type,
                        IF plain THEN None ELSE self.prerelease,
                        None, None).val

\* SemanticVersion.increment; the constructor call cannot raise (no
\* dev_count is passed).
increment(self, minor, major) ==
    LET pre == truthy_str(self.prerelease_type)
        type0 == IF pre THEN self.prerelease_type ELSE None
        prerelease0 == IF pre THEN Some(self.prerelease[1] + 1) ELSE None
        patch0 == IF pre THEN self.patch ELSE self.patch + 1
        new_minor1 == IF minor THEN self.minor + 1 ELSE self.minor
        patch1 == IF minor THEN 0 ELSE patch0
        type1 == IF minor THEN None ELSE type0
        prerelease1 == IF minor THEN None ELSE prerelease0
        new_major == IF major THEN self.major + 1 ELSE self.major
        new_minor == IF major THEN 0 ELSE new_minor1
        new_patch == IF major THEN 0 ELSE patch1
        new_prerelease_type == IF major THEN None ELSE type1
        new_prerelease == IF major THEN None ELSE prerelease1
    IN  SemanticVersion(new_major, new_minor, new_patch,
                        new_prerelease_type, new_prerelease, None, None).val

\* SemanticVersion._long_version; pre_separator is optional (None for rpm).
_long_version(self, pre_separator, hash_separator, rc_marker) ==
    LET lowered == (truthy_str(self.prerelease_type)
                        \/ truthy_int(self.dev_count))
                   /\ pre_separator = None
        base == IF lowered THEN brief_string(decrement(self))
                ELSE brief_string(self)
        sep == IF lowered THEN <<".">> ELSE pre_separator[1]
        pre_segment ==
            IF truthy_str(self.prerelease_type)
            THEN sep \o rc_marker \o self.prerelease_type[1]
                     \o str_int(self.prerelease[1])
            ELSE <<>>
        dev_segment ==
            IF truthy_int(self.dev_count)
            THEN sep \o <<"d", "e", "v">> \o str_int(self.dev_count[1])
                     \o (IF truthy_str(self.githash)
                         THEN hash_separator \o self.githash[1] ELSE <<>>)
            ELSE <<>>
    IN  base \o pre_segment \o dev_segment

\* release_string with '.' before the hash in the place of '.g'.
release_string_hash_without_g(self) ==
    _long_version(self, Some(<<".">>), <<".">>, <<"0">>)

\* SemanticVersion.release_string
release_string(self) == _long_version(self, Some(<<".">>), <<".", "g">>, <<"0">>)

\* SemanticVersion.debian_string
debian_string(self) == _long_version(self, Some(<<"~">>), <<"+", "g">>, <<>>)

\* SemanticVersion.rpm_string
rpm_string(self) == _long_version(self, None, <<"+", "g">>, <<>>)

\* SemanticVersion.version_tuple: a prerelease type type_map does not hold
\* raises KeyError.
version_tuple(self) ==
    LET segments == <<self.major, self.minor, self.patch>>
    IN  IF truthy_str(self.prerelease_type)
        THEN IF self.prerelease_type[1] = <<"a">>
             THEN Ok(segments \o <<"alpha", self.prerelease[1]>>)
             ELSE IF self.prerelease_type[1] = <<"b">>
             THEN Ok(segments \o <<"beta", self.prerelease[1]>>)
             ELSE IF self.prerelease_type[1] = <<"r", "c">>
             THEN Ok(segments \o <<"candidate", self.prerelease[1]>>)
             ELSE Raise("KeyError")
        ELSE IF truthy_int(self.dev_count)
        THEN Ok(segments \o <<"dev", self.dev_count[1] - 1>>)
        ELSE Ok(segments \o <<"final", 0>>)

\* to_dev that passes no dev_count and no githash on.
to_dev_no_count(self, dev_count, githash) ==
    SemanticVersion(self.major, self.minor, self.patch, None, None,
                    None, None).val

\* SemanticVersion.to_dev; the constructor call cannot raise (no prerelease
\* type is passed).
to_dev(self, dev_count, githash) ==
    SemanticVersion(self.major, self.minor, self.patch, None, None,
                    Some(dev_count), Some(githash)).val

\* SemanticVersion.to_release; the constructor call cannot raise.
to_release(self) ==
    SemanticVersion(self.major, self.minor, self.patch,
                    None, None, None, None).val

-----------------------------------------------------------------------------
(* metadata.py: the version-string parser. *)

\* _is_int
_is_int(string) == ~Raised(int(string))

\* _parse_type with a prerelease type of one letter.
_parse_type_one_letter(segment) ==
    LET rest == drop(segment, takewhile_len(Digits, segment))
        prerelease_type == take(rest, IF takewhile_len(Letters, rest) > 0
                                      THEN 1 ELSE 0)
    IN  With(int(drop(rest, Len(prerelease_type))), LAMBDA prerelease :
            IF Raised(prerelease) THEN prerelease
            ELSE Ok(<<prerelease_type, prerelease.val>>))

\* _parse_type: the outcome is a pair <<prerelease_type, prerelease>>.
_parse_type(segment) ==
    LET rest == drop(segment, takewhile_len(Digits, segment))
        prerelease_type == take(rest, takewhile_len(Letters, rest))
    IN  With(int(drop(rest, Len(prerelease_type))), LAMBDA prerelease :
            IF Raised(prerelease) THEN prerelease
            ELSE Ok(<<prerelease_type, prerelease.val>>))

\* from_pip_string, lines 73-91: the outcome is the components list.  The
\* int 0 elements the code pads with are written '0': they are only ever
\* read through int().
pip_components(version_string) ==
    With(split(version_string, "."), LAMBDA input_components :
    With(SelectSeq(input_components, isdigit), LAMBDA digits :
    LET digit_len == Len(digits)
        zero == <<"0">>
        pad(n) == [i \in 1..n |-> zero]
    IN  IF digit_len = 0 THEN Raise("ValueError")
        ELSE IF digit_len >= 3
        THEN Ok(digits \o drop(input_components, digit_len))
        ELSE IF digit_len >= Len(input_components)
        THEN Ok(digits \o pad(3 - digit_len))
        ELSE LET mixed_component == input_components[digit_len + 1]
             IN  IF Len(mixed_component) = 0 THEN Raise("IndexError")
                 ELSE IF ~isdigit_char(mixed_component[1])
                 THEN Ok(digits \o pad(3 - digit_len)
                             \o drop(input_components, digit_len))
                 ELSE LET last_component ==
                              take(mixed_component,
                                   takewhile_len(Digits, mixed_component))
                          input2 ==
                              take(input_components, digit_len)
                              \o <<last_component,
                                    drop(mixed_component, Len(last_component))>>
                              \o drop(input_components, digit_len + 1)
                      IN  Ok(digits \o <<last_component>>
                                 \o pad(3 - (digit_len + 1))
                                 \o drop(input2, digit_len + 1))))

\* from_pip_string, lines 106-138, on the remainder after major, minor and
\* patch.
pip_remainder(major, minor, patch, remainder0) ==
    LET first == int(remainder0[1])
        remainder_starts_with_int ==
            Len(remainder0) > 0 /\ ~Raised(first) /\ first.val # 0
        build(prerelease_type, prerelease, dev_count, githash, remainder) ==
            SemanticVersion(
                major, minor, patch, prerelease_type, prerelease, dev_count,
                IF Len(remainder) > 1 THEN Some(drop(remainder[2], 1))
                ELSE githash)
        tail(prerelease_type, prerelease, remainder) ==
            IF Len(remainder) = 0
            THEN build(prerelease_type, prerelease, None, None, remainder)
            ELSE LET component == remainder[1]
                 IN  IF startswith(component, <<"d", "e", "v">>)
                     THEN With(int(drop(component, 3)), LAMBDA n :
                              IF Raised(n) THEN n
                              ELSE build(prerelease_type, prerelease,
                                         Some(n.val), None, remainder))
                     ELSE IF startswith(component, <<"g">>)
                     THEN build(prerelease_type, prerelease, Some(1),
                                Some(drop(component, 1)), remainder)
                     ELSE Raise("ValueError")
    IN  IF remainder_starts_with_int
        THEN build(None, None, Some(first.val), None, remainder0)
        ELSE IF Len(remainder0) = 0 THEN tail(None, None, remainder0)
        ELSE IF Len(remainder0[1]) = 0 THEN Raise("IndexError")
        ELSE IF remainder0[1][1] \in {"0", "a", "b", "r"}
        THEN With(_parse_type(remainder0[1]), LAMBDA parsed :
                 IF Raised(parsed) THEN parsed
                 ELSE tail(Some(parsed.val[1]), Some(parsed.val[2]),
                           Tail(remainder0)))
        ELSE tail(None, None, remainder0)

\* from_pip_string answering 0.0.0 where lines 77-78 raise.
from_pip_string_default_zero(version_string) ==
    With(pip_components(version_string), LAMBDA parts :
        IF Raised(parts)
        THEN SemanticVersion(0, 0, 0, None, None, None, None)
        ELSE With(parts.val, LAMBDA components :
                 IF _is_int(components[3])
                 THEN pip_remainder(int(components[1]).val,
                                    int(components[2]).val,
                                    int(components[3]).val,
                                    drop(components, 3))
                 ELSE pip_remainder(int(components[1]).val,
                                    int(components[2]).val,
                                    0, drop(components, 2))))

\* from_pip_string
from_pip_string(version_string) ==
    With(pip_components(version_string), LAMBDA parts :
        IF Raised(parts) THEN parts
        ELSE With(parts.val, LAMBDA components :
                 IF _is_int(components[3])
                 THEN pip_remainder(int(components[1]).val,
                                    int(components[2]).val,
                                    int(components[3]).val,
                                    drop(components, 3))
                 ELSE pip_remainder(int(components[1]).val,
                                    int(components[2]).val,
                                    0, drop(components, 2))))

-----------------------------------------------------------------------------
(* common.py and git.py: the git collaborator.  A repository is a record   *)
(* [spawns, git_dir, log, changelog, last_commit]: whether the git         *)
(* executable can be started, whether 'git rev-parse --git-dir' finds a    *)
(* repository, the tag sets of the 'git log --oneline --decorate' entries  *)
(* (newest first), the lines of 'git log <range>' and the abbreviated hash *)
(* of HEAD.                                                                *)

\* run_shell_command: spawns says whether Popen starts the process.  When it
\* does not, the exception is kept in error (lines 50-52) and line 54 then
\* reads proc, which was never bound.
run_shell_command(spawns, returncode, stdout, throw_on_error) ==
    IF ~spawns THEN Raise("UnboundLocalError")
    ELSE IF returncode # 0 /\ throw_on_error THEN Raise("DistutilsError")
    ELSE Ok(stdout)

\* git_is_installed
git_is_installed(repo) ==
    LET r == run_shell_command(repo.spawns, 0, <<"g", "i", "t">>, FALSE)
    IN  IF Raises(r, "OSError") THEN Ok(FALSE)
        ELSE IF Raised(r) THEN r
        ELSE Ok(TRUE)

\* get_git_directory: '' outside a repository (git exits non-zero and prints
\* nothing on stdout).
get_git_directory(repo) ==
    IF repo.git_dir
    THEN run_shell_command(repo.spawns, 0, <<".", "g", "i", "t">>, FALSE)
    ELSE run_shell_command(repo.spawns, 128, <<>>, FALSE)

\* iter_log_oneline: None without a git directory, else the entries.
iter_log_oneline(repo) ==
    With(get_git_directory(repo), LAMBDA git_dir :
        IF Raised(git_dir) THEN git_dir
        ELSE IF Len(git_dir.val) = 0 THEN Ok(None)
        ELSE Ok(Some(repo.log)))

-----------------------------------------------------------------------------
(* metadata.py: version inference from the git history. *)

\* A line of 'git log' starts with the Sem-Ver header when its lower-cased
\* text starts with '    sem-ver:'.
lower(header) ==
    IF header = "    Sem-Ver:" THEN "    sem-ver:" ELSE header

\* _get_increment_kwargs without line 171: 'deprecation' is not recognised.
_get_increment_kwargs_no_deprecation(changelog) ==
    LET commands == {i \in 1..Len(changelog) :
                        lower(changelog[i].header) = "    sem-ver:"}
        symbols == UNION {{changelog[i].command[k] :
                              k \in 1..Len(changelog[i].command)} :
                          i \in commands}
        _handle_symbol(symbol, impact) ==
            IF symbol \in symbols THEN {impact} ELSE {}
        result == _handle_symbol("bugfix", "patch")
                      \cup _handle_symbol("feature", "minor")
                      \cup _handle_symbol("api-break", "major")
    IN  result \ {"patch"}

\* _get_increment_kwargs: the keys of the returned dict.
_get_increment_kwargs(changelog) ==
    LET commands == {i \in 1..Len(changelog) :
                        lower(changelog[i].header) = "    sem-ver:"}
        symbols == UNION {{changelog[i].command[k] :
                              k \in 1..Len(changelog[i].command)} :
                          i \in commands}
        _handle_symbol(symbol, impact) ==
            IF symbol \in symbols THEN {impact} ELSE {}
        result == _handle_symbol("bugfix", "patch")
                      \cup _handle_symbol("feature", "minor")
                      \cup _handle_symbol("deprecation", "minor")
                      \cup _handle_symbol("api-break", "major")
    IN  result \ {"patch"}

\* The builtin max over one iteration order of a non-empty set: the first
\* element, replaced by each later item that is > it.
max(items) ==
    LET best[i \in 1..Len(items)] ==
            IF i = 1 THEN Ok(items[1])
            ELSE With(best[i - 1], LAMBDA maxval :
                     IF Raised(maxval) THEN maxval
                     ELSE With(__gt__(items[i], maxval.val), LAMBDA bigger :
                              IF Raised(bigger) THEN bigger
                              ELSE IF bigger.val THEN Ok(items[i])
                              ELSE maxval))
    IN  best[Len(items)]

\* The iteration orders of a set.
Orders(S) ==
    {f \in [1..Cardinality(S) -> S] :
        \A i, j \in 1..Cardinality(S) : f[i] = f[j] => i = j}

\* The set version_tags built from one entry's tag_set: the tags
\* from_pip_string parses; any exception is swallowed.
version_tags(tag_set) ==
    {parsed.val :
        parsed \in {p \in {from_pip_string(tag) : tag \in tag_set} :
                        ~Raised(p)}}

RECURSIVE revno_loop(_, _)
\* The loop of _get_revno_and_last_tag from entry row_count on.
revno_loop(changelog, row_count) ==
    IF row_count >= Len(changelog)
    THEN {Ok([tag |-> <<>>,
              distance |-> IF Len(changelog) = 0 THEN 0
                           ELSE Len(changelog) - 1])}
    ELSE With(version_tags(changelog[row_count + 1]), LAMBDA tags :
             IF tags # {}
             THEN {With(max(order), LAMBDA highest :
                       IF Raised(highest) THEN highest
                       ELSE Ok([tag |-> release_string(highest.val),
                                distance |-> row_count])) :
                   order \in Orders(tags)}
             ELSE revno_loop(changelog, row_count + 1))

\* _get_revno_and_last_tag: the set of its possible outcomes, one for each
\* order in which the set of parsed tags may be iterated.
_get_revno_and_last_tag(repo) ==
    With(iter_log_oneline(repo), LAMBDA changelog :
        IF Raised(changelog) THEN {changelog}
        ELSE IF changelog.val = None THEN {Raise("TypeError")}
        ELSE revno_loop(changelog.val[1], 0))

\* calculate_from with the test of line 224 written new_version >=
\* target_version.
calculate_from_ge(target_version, revno, repo) ==
    With(from_pip_string(IF Len(revno.tag) > 0 THEN revno.tag ELSE <<"0">>),
         LAMBDA parsed :
    IF Raised(parsed) THEN parsed
    ELSE
    With(parsed.val, LAMBDA last_semver :
    With(_get_increment_kwargs(repo.changelog), LAMBDA kwargs :
    With(IF revno.distance = 0 THEN last_semver
         ELSE increment(last_semver, "minor" \in kwargs, "major" \in kwargs),
         LAMBDA new_version :
    With(IF target_version = None THEN Ok(FALSE)
         ELSE __ge__(new_version, target_version[1]),
         LAMBDA conflict :
    IF Raised(conflict) THEN conflict
    ELSE IF conflict.val THEN Raise("ValueError")
    ELSE IF revno.distance = 0 THEN Ok(last_semver)
    ELSE IF target_version # None
    THEN Ok(to_dev(target_version[1], revno.distance, repo.last_commit))
    ELSE Ok(to_dev(new_version, revno.distance, repo.last_commit)))))))

\* calculate_from with the return of lines 230-231 moved before the test of
\* line 224.
calculate_from_tag_first(target_version, revno, repo) ==
    With(from_pip_string(IF Len(revno.tag) > 0 THEN revno.tag ELSE <<"0">>),
         LAMBDA parsed :
    IF Raised(parsed) THEN parsed
    ELSE IF revno.distance = 0 THEN parsed
    ELSE
    With(_get_increment_kwargs(repo.changelog), LAMBDA kwargs :
    With(increment(parsed.val, "minor" \in kwargs, "major" \in kwargs),
         LAMBDA new_version :
    With(IF target_version = None THEN Ok(FALSE)
         ELSE __gt__(new_version, target_version[1]),
         LAMBDA conflict :
    IF Raised(conflict) THEN conflict
    ELSE IF conflict.val THEN Raise("ValueError")
    ELSE IF target_version # None
    THEN Ok(to_dev(target_version[1], revno.distance, repo.last_commit))
    ELSE Ok(to_dev(new_version, revno.distance, repo.last_commit))))))

\* _calculate_target_version after its call of _get_revno_and_last_tag has
\* returned revno.
calculate_from(target_version, revno, repo) ==
    With(from_pip_string(IF Len(revno.tag) > 0 THEN revno.tag ELSE <<"0">>),
         LAMBDA parsed :
    IF Raised(parsed) THEN parsed
    ELSE
    With(parsed.val, LAMBDA last_semver :
    With(_get_increment_kwargs(repo.changelog), LAMBDA kwargs :
    With(IF revno.distance = 0 THEN last_semver
         ELSE increment(last_semver, "minor" \in kwargs, "major" \in kwargs),
         LAMBDA new_version :
    With(IF target_version = None THEN Ok(FALSE)
         ELSE __gt__(new_version, target_version[1]),
         LAMBDA conflict :
    IF Raised(conflict) THEN conflict
    ELSE IF conflict.val THEN Raise("ValueError")
    ELSE IF revno.distance = 0 THEN Ok(last_semver)
    ELSE IF target_version # None
    THEN Ok(to_dev(target_version[1], revno.distance, repo.last_commit))
    ELSE Ok(to_dev(new_version, revno.distance, repo.last_commit)))))))

\* _calculate_target_version: the set of its possible outcomes.
_calculate_target_version(target_version, repo) ==
    {IF Raised(revno) THEN revno
     ELSE calculate_from(target_version, revno.val, repo) :
     revno \in _get_revno_and_last_tag(repo)}

\* git.get_version_from_git(), called at metadata.py line 253: git.py
\* defines no such function.
git_get_version_from_git == Raise("AttributeError")

\* get_version_from_git: the set of its possible outcomes.
get_version_from_git(pre_version, repo) ==
    With(git_is_installed(repo), LAMBDA installed :
    With(IF ~Raised(git_get_version_from_git)
         THEN from_pip_string(git_get_version_from_git.val)
         ELSE IF truthy_str(pre_version) THEN from_pip_string(pre_version[1])
         ELSE Ok(None),
         LAMBDA target :
    IF Raised(installed) THEN {installed}
    ELSE IF ~installed.val THEN {Ok(<<>>)}
    ELSE IF Raised(target) THEN {target}
    ELSE {IF Raised(result) THEN result ELSE Ok(release_string(result.val)) :
          result \in _calculate_target_version(
                         IF target.val = None THEN None ELSE Some(target.val),
                         repo)}))

\* os.environ.get('PBR_VERSION', os.environ.get('OSLO_PACKAGE_VERSION', None))
environ_version(environ) ==
    IF environ.PBR_VERSION # None THEN environ.PBR_VERSION
    ELSE environ.OSLO_PACKAGE_VERSION

\* _get_version_from_pkg_metadata: files.PKG_INFO and files.METADATA are the
\* headers of the file when it can be read, None when it cannot; the loop
\* keeps the last file it could read.
_get_version_from_pkg_metadata(package_name, files) ==
    LET pkg_metadata ==
            IF files.METADATA # None THEN files.METADATA[1]
            ELSE IF files.PKG_INFO # None THEN files.PKG_INFO[1]
            ELSE [Name |-> None, Version |-> None]
    IN  IF pkg_metadata.Name # Some(package_name) THEN None
        ELSE pkg_metadata.Version

\* get_package_version: the set of its possible outcomes (on Python 3; the
\* encode of line 325 keeps the text).
get_package_version(package_name, pre_version, environ, files, repo) ==
    IF truthy_str(environ_version(environ))
    THEN {Ok(environ_version(environ)[1])}
    ELSE IF truthy_str(_get_version_from_pkg_metadata(package_name, files))
    THEN {Ok(_get_version_from_pkg_metadata(package_name, files)[1])}
    ELSE {IF Raised(prj_version) THEN prj_version
          ELSE IF Len(prj_version.val) > 0 THEN prj_version
          ELSE Raise("Exception") :
          prj_version \in get_version_from_git(pre_version, repo)}

\* metadata.get_version: the set of its possible outcomes.  provider is the
\* version pkg_resources records for the package, None when it raises
\* DistributionNotFound.
get_version(package, provider, environ, files, repo) ==
    {IF Raised(result_string) THEN result_string
     ELSE from_pip_string(result_string.val) :
     result_string \in
        IF provider # None THEN {Ok(provider[1])}
        ELSE get_package_version(package, None, environ, files, repo)}

-----------------------------------------------------------------------------
(* __init__.py: class VersionInfo.  A method is given the object and the   *)
(* outcome got that metadata.get_version has if the method calls it; it    *)
(* yields the object after the call, the outcome of the call and the       *)
(* number of calls of metadata.get_version it has made.                    *)

\* VersionInfo.__init__
VersionInfo(package) ==
    [package |-> package, version |-> None, _cached_version |-> None,
     _semantic |-> None]

\* semantic_version with the test of line 55 left out: every call looks the
\* version up.
semantic_version_always_looks_up(self, got) ==
    IF Raised(got)
    THEN [self |-> self, result |-> got, lookups |-> 1]
    ELSE [self |-> [self EXCEPT !._semantic = Some(got.val)],
          result |-> got, lookups |-> 1]

\* VersionInfo.semantic_version
semantic_version(self, got) ==
    IF self._semantic = None
    THEN IF Raised(got)
         THEN [self |-> self, result |-> got, lookups |-> 1]
         ELSE [self |-> [self EXCEPT !._semantic = Some(got.val)],
               result |-> got, lookups |-> 1]
    ELSE [self |-> self, result |-> Ok(self._semantic[1]), lookups |-> 0]

\* VersionInfo.release_string
VersionInfo_release_string(self, got) ==
    With(semantic_version(self, got),
         LAMBDA r : IF Raised(r.result) THEN r
                    ELSE [r EXCEPT !.result = Ok(release_string(r.result.val))])

\* VersionInfo.version_string
VersionInfo_version_string(self, got) ==
    With(semantic_version(self, got),
         LAMBDA r : IF Raised(r.result) THEN r
                    ELSE [r EXCEPT !.result = Ok(brief_string(r.result.val))])

\* VersionInfo.cached_version_string
cached_version_string(self, prefix, got) ==
    IF ~truthy_str(self._cached_version)
    THEN With(VersionInfo_version_string(self, got),
              LAMBDA r :
                  IF Raised(r.result) THEN r
                  ELSE [self |-> [r.self EXCEPT !._cached_version =
                                      Some(prefix \o r.result.val)],
                        result |-> Ok(prefix \o r.result.val),
                        lookups |-> r.lookups])
    ELSE [self |-> self, result |-> Ok(self._cached_version[1]),
          lookups |-> 0]

-----------------------------------------------------------------------------
(* The versions the comparison operators are applied to: every version the *)
(* constructor accepts with fields in the bounds.                          *)

Components == 0..MaxComponent

\* The (major, minor, patch) triples: MaxComponent bounds their sum.
Releases ==
    {t \in Components \X Components \X Components :
        t[1] + t[2] + t[3] <= MaxComponent}

PrereleaseTypes == {<<"a">>, <<"b">>, <<"r", "c">>}

GitHashes == {<<"a", "1">>, <<"b", "2">>}

OptSet(S) == {None} \cup {Some(x) : x \in S}

ConstructorCalls ==
    {SemanticVersion(t[1], t[2], t[3], ty, pr, dc, gh) :
        t \in Releases,
        ty \in OptSet(PrereleaseTypes),
        pr \in OptSet(0..MaxPrerelease),
        dc \in OptSet(0..MaxDevCount),
        gh \in OptSet(GitHashes)}

\* As the callers in semantic.py and metadata.py construct them: a prerelease
\* number only with a prerelease type, a githash only with a dev_count.
Versions ==
    {r.val : r \in {c \in ConstructorCalls :
                        /\ ~Raised(c)
                        /\ c.val.prerelease_type = None => c.val.prerelease = None
                        /\ c.val.dev_count = None => c.val.githash = None}}

\* a < b and b < a are evaluated for two versions.
Compare ==
    /\ pc = "idle"
    /\ \E a, b \in Versions :
        /\ pc' = "compare"
        /\ inp' = [a |-> a, b |-> b]
        /\ out' = [ab |-> __lt__(a, b), ba |-> __lt__(b, a)]

\* a == b, a < b, b < a, a > b, a >= b and a <= b are evaluated for two
\* versions.
CompareDerived ==
    /\ pc = "idle"
    /\ \E a, b \in Versions :
        /\ pc' = "derived"
        /\ inp' = [a |-> a, b |-> b]
        /\ out' = [eq |-> __eq__(a, b), ne |-> __ne__(a, b),
                   lt |-> __lt__(a, b), lt_reversed |-> __lt__(b, a),
                   gt |-> __gt__(a, b), ge |-> __ge__(a, b),
                   le |-> __le__(a, b)]

\* The arguments of a direct constructor call; the empty prerelease type is
\* among them.
ConstructorArgs ==
    [major : Components, minor : Components, patch : Components,
     prerelease_type : OptSet(PrereleaseTypes \cup {<<>>}),
     prerelease : OptSet(0..MaxPrerelease),
     dev_count : OptSet(0..MaxDevCount),
     githash : OptSet(GitHashes)]

\* SemanticVersion(major, minor, patch, prerelease_type, prerelease,
\* dev_count, githash)
Construct ==
    /\ pc = "idle"
    /\ \E a \in ConstructorArgs :
        /\ pc' = "construct"
        /\ inp' = a
        /\ out' = SemanticVersion(a.major, a.minor, a.patch,
                                  a.prerelease_type, a.prerelease,
                                  a.dev_count, a.githash)

\* v.increment(minor, major)
Increment ==
    /\ pc = "idle"
    /\ \E v \in Versions, minor \in BOOLEAN, major \in BOOLEAN :
        /\ pc' = "inc"
        /\ inp' = [v |-> v, minor |-> minor, major |-> major]
        /\ out' = increment(v, minor, major)

\* v.decrement()
Decrement ==
    /\ pc = "idle"
    /\ \E v \in Versions :
        /\ pc' = "decrement"
        /\ inp' = [v |-> v]
        /\ out' = decrement(v)

\* v.to_dev(dev_count, githash)
ToDev ==
    /\ pc = "idle"
    /\ \E v \in Versions, dev_count \in 0..MaxDevCount, githash \in GitHashes :
        /\ pc' = "to_dev"
        /\ inp' = [v |-> v, dev_count |-> dev_count, githash |-> githash]
        /\ out' = to_dev(v, dev_count, githash)

\* v.to_release()
ToRelease ==
    /\ pc = "idle"
    /\ \E v \in Versions :
        /\ pc' = "to_release"
        /\ inp' = [v |-> v]
        /\ out' = to_release(v)

\* v.rpm_string()
RpmString ==
    /\ pc = "idle"
    /\ \E v \in Versions :
        /\ pc' = "rpm"
        /\ inp' = [v |-> v]
        /\ out' = rpm_string(v)

\* v.debian_string()
DebianString ==
    /\ pc = "idle"
    /\ \E v \in Versions :
        /\ pc' = "debian"
        /\ inp' = [v |-> v]
        /\ out' = debian_string(v)

\* v.version_tuple()
VersionTuple ==
    /\ pc = "idle"
    /\ \E v \in Versions :
        /\ pc' = "tuple"
        /\ inp' = [v |-> v]
        /\ out' = version_tuple(v)

-----------------------------------------------------------------------------
(* The strings from_pip_string is applied to.                              *)

\* X.Y.Z
Dotted(t) ==
    str_nat(t[1]) \o <<".">> \o str_nat(t[2]) \o <<".">> \o str_nat(t[3])

\* X.Y.Z.0tN, the canonical prerelease form.
Canonical(t, type, n) == Dotted(t) \o <<".", "0">> \o type \o str_nat(n)

\* X.Y.ZtN, the legacy form with the letters attached to the patch.
Legacy3(t, type, n) == Dotted(t) \o type \o str_nat(n)

\* X.YtN, the legacy form with the letters attached to the minor.
Legacy2(t, type, n) ==
    str_nat(t[1]) \o <<".">> \o str_nat(t[2]) \o type \o str_nat(n)

\* X.Y.Z.N and X.Y.Z.N.g<hash>, the legacy dev count forms.
LegacyDev(t, n, hash) ==
    Dotted(t) \o <<".">> \o str_nat(n)
        \o (IF hash = None THEN <<>> ELSE <<".", "g">> \o hash[1])

PrereleaseStrings ==
    {Canonical(t, type, n) :
        t \in Releases, type \in PrereleaseTypes, n \in 0..MaxPrerelease}
    \cup {Legacy3(t, type, n) :
        t \in Releases, type \in PrereleaseTypes, n \in 0..MaxPrerelease}
    \cup {Legacy2(t, type, n) :
        t \in {r \in Releases : r[3] = 0}, type \in PrereleaseTypes,
        n \in 0..MaxPrerelease}

LegacyDevStrings ==
    {LegacyDev(t, n, hash) :
        t \in Releases, n \in 0..MaxDevCount, hash \in OptSet(GitHashes)}

\* What release_string produces.
RenderedStrings == {release_string(v) : v \in Versions}

\* Strings with no component made of digits only.
NoDigitStrings ==
    {<<>>,
     <<"a", "b", "c">>,
     <<"a", "1", "b", "2">>,
     <<"g", "8", "3", "b", "e", "f", "7">>,
     <<"a", ".", "b">>,
     <<"1", "a", ".", "b", "2">>,
     <<".">>}

\* Strings with a numeric component and a token of no recognised form.
MalformedStrings ==
    {<<"1", ".", "0", ".", "0", ".">>,
     <<"1", ".">>,
     <<"1", ".", "0", ".", "0", ".", "x", "1">>,
     <<"1", ".", "0", ".", "0", ".", "d", "e", "v">>,
     <<"1", ".", "0", ".", "0", ".", "0", "a">>,
     <<"1", ".", "0", ".", "0", ".", "d", "e", "v", "1", ".", "x", "y", "z">>,
     <<"1", ".", ".", "0">>}

\* Strings with a prerelease token and a dev or hash token.
PrereleaseDevStrings ==
    {<<"1", ".", "0", ".", "0", ".", "0", "a", "1", ".", "d", "e", "v", "2">>,
     <<"1", ".", "0", ".", "0", ".", "0", "r", "c", "1", ".", "g", "a", "1">>}

\* Strings with a prerelease token whose letters are not a, b or rc.
UnknownTypeStrings ==
    {<<"1", ".", "0", ".", "0", ".", "0", "x", "1">>,
     <<"1", ".", "0", ".", "0", ".", "0", "a", "l", "p", "h", "a", "1">>,
     <<"1", ".", "0", ".", "0", ".", "a", "l", "p", "h", "a", "1">>}

ParseStrings ==
    PrereleaseStrings \cup LegacyDevStrings \cup RenderedStrings
        \cup NoDigitStrings \cup MalformedStrings \cup PrereleaseDevStrings
        \cup UnknownTypeStrings

\* from_pip_string(version_string)
FromPipString ==
    /\ pc = "idle"
    /\ \E version_string \in ParseStrings :
        /\ pc' = "parse"
        /\ inp' = [version_string |-> version_string]
        /\ out' = from_pip_string(version_string)

\* from_pip_string(v.release_string())
RoundTrip ==
    /\ pc = "idle"
    /\ \E v \in Versions :
        \E rendered \in {release_string(v)} :
            /\ pc' = "roundtrip"
            /\ inp' = [v |-> v]
            /\ out' = [string |-> rendered,
                       parsed |-> from_pip_string(rendered)]

\* from_pip_string(version_string).release_string(), and the same applied to
\* the string that gives.
Canonicalise ==
    /\ pc = "idle"
    /\ \E version_string \in ParseStrings :
        \E parsed \in {from_pip_string(version_string)} :
            /\ pc' = "canonical"
            /\ inp' = [version_string |-> version_string]
            /\ out' = IF Raised(parsed) THEN [parsed |-> parsed]
                      ELSE With(release_string(parsed.val), LAMBDA c :
                          With(from_pip_string(c), LAMBDA reparsed :
                              [parsed |-> parsed,
                               canonical |-> c,
                               reparsed |-> reparsed,
                               recanonical |->
                                   IF Raised(reparsed) THEN reparsed
                                   ELSE Ok(release_string(reparsed.val))]))

-----------------------------------------------------------------------------
(* The repositories and arguments the history operations are applied to.   *)

TagPool ==
    {<<"1", ".", "0", ".", "0">>,
     <<"1", ".", "0", ".", "0", "r", "c", "1">>,
     <<"1", ".", "0", ".", "0", ".", "d", "e", "v", "1">>,
     <<"1", ".", "0", ".", "0", ".", "d", "e", "v", "0">>,
     <<"1", ".", "1">>,
     <<"n", "o", "t", "-", "a", "-", "v", "e", "r", "s", "i", "o", "n">>}

TagSets(k) == {S \in SUBSET TagPool : Cardinality(S) <= k}

Logs(n, k) == UNION {[1..m -> TagSets(k)] : m \in 0..n}

LinePool ==
    {[header |-> "    sem-ver:", command |-> <<"bugfix">>],
     [header |-> "    Sem-Ver:", command |-> <<"feature", "docs">>],
     [header |-> "    sem-ver:", command |-> <<"deprecation">>],
     [header |-> "    sem-ver:", command |-> <<"api-break", "feature">>],
     [header |-> "    sem-ver:", command |-> <<"docs">>],
     [header |-> "sem-ver:", command |-> <<"api-break">>]}

Changelogs(n) == UNION {[1..m -> LinePool] : m \in 0..n}

PreVersionPool ==
    {<<"1", ".", "0", ".", "0">>,
     <<"1", ".", "0", ".", "1">>,
     <<"2", ".", "0", ".", "0">>,
     <<"1", ".", "0", ".", "1", ".", "d", "e", "v", "0">>,
     <<"1", ".", "0", ".", "0", ".", "d", "e", "v", "2">>,
     <<"1", ".", "0", ".", "0", ".", "0", "r", "c", "3">>}

Targets ==
    {None} \cup {Some(from_pip_string(p).val) : p \in PreVersionPool}

PreVersions ==
    {None, Some(<<>>), Some(<<"a", "b", "c">>)}
        \cup {Some(p) : p \in PreVersionPool}

RevnoLogs == Logs(MaxLog, MaxTags)

IncrementChangelogs == Changelogs(MaxLines)

\* Repositories git can read: entries with at most one tag, at most one
\* line of commit-message text.
Repos ==
    [spawns : {TRUE}, git_dir : {TRUE}, log : Logs(MaxLog, 1),
     changelog : Changelogs(1), last_commit : GitHashes]

\* No git executable, or no repository in the working directory.
BrokenRepos ==
    [spawns : {FALSE}, git_dir : BOOLEAN, log : {<<>>},
     changelog : {<<>>}, last_commit : {<<>>}]
        \cup
    [spawns : {TRUE}, git_dir : {FALSE}, log : {<<>>},
     changelog : {<<>>}, last_commit : {<<>>}]

LogRepo(log) ==
    [spawns |-> TRUE, git_dir |-> TRUE, log |-> log, changelog |-> <<>>,
     last_commit |-> <<>>]

\* _get_revno_and_last_tag() on a repository with the given log.
RevnoAndLastTag ==
    /\ pc = "idle"
    /\ \E log \in RevnoLogs :
        \E r \in _get_revno_and_last_tag(LogRepo(log)) :
            /\ pc' = "revno"
            /\ inp' = [log |-> log]
            /\ out' = r

\* last.increment(**_get_increment_kwargs(tag)), metadata.py line 222.
IncrementLastTag ==
    /\ pc = "idle"
    /\ \E last \in Versions, changelog \in IncrementChangelogs :
        LET kwargs == _get_increment_kwargs(changelog)
        IN  /\ pc' = "increment"
            /\ inp' = [last |-> last, changelog |-> changelog]
            /\ out' = [kwargs |-> kwargs,
                       version |-> increment(last, "minor" \in kwargs,
                                             "major" \in kwargs)]

\* _calculate_target_version(target_version); revno is what its call of
\* _get_revno_and_last_tag returned.
CalculateTargetVersion ==
    /\ pc = "idle"
    /\ \E target_version \in Targets, repo \in Repos :
        \E revno \in _get_revno_and_last_tag(repo) :
            /\ pc' = "calculate"
            /\ inp' = [target_version |-> target_version, repo |-> repo]
            /\ out' = [revno |-> revno,
                       result |-> IF Raised(revno) THEN revno
                                  ELSE calculate_from(target_version,
                                                      revno.val, repo)]

\* get_version_from_git(pre_version)
GetVersionFromGit ==
    /\ pc = "idle"
    /\ \E pre_version \in PreVersions, repo \in Repos \cup BrokenRepos :
        \E result \in get_version_from_git(pre_version, repo) :
            /\ pc' = "git"
            /\ inp' = [pre_version |-> pre_version, repo |-> repo]
            /\ out' = result

\* The environment, the metadata files and the repositories
\* get_package_version is applied to.
Environs ==
    [PBR_VERSION : OptSet({<<>>, <<"2", ".", "0", ".", "0">>}),
     OSLO_PACKAGE_VERSION : OptSet({<<>>, <<"3", ".", "0", ".", "0">>})]

MetadataFiles ==
    OptSet([Name : OptSet({"pbr", "other"}),
            Version : OptSet({<<>>, <<"1", ".", "2", ".", "3">>})])

PackageRepos ==
    BrokenRepos
        \cup {r \in Repos : Len(r.log) <= 1 /\ r.changelog = <<>>
                              /\ r.last_commit = <<"a", "1">>}

\* get_package_version('pbr', pre_version)
GetPackageVersion ==
    /\ pc = "idle"
    /\ \E environ \in Environs, PKG_INFO \in MetadataFiles,
          METADATA \in MetadataFiles, repo \in PackageRepos,
          pre_version \in {None, Some(<<"1", ".", "0", ".", "1">>)} :
        \E files \in {[PKG_INFO |-> PKG_INFO, METADATA |-> METADATA]} :
        \E result \in get_package_version("pbr", pre_version, environ,
                                           files, repo) :
            /\ pc' = "package"
            /\ inp' = [pre_version |-> pre_version, environ |-> environ,
                       files |-> files, repo |-> repo]
            /\ out' = result

-----------------------------------------------------------------------------
(* A VersionInfo object and the calls made on it.  inp is the object; out  *)
(* is the record of the last call: its name, its prefix, its outcome, the  *)
(* object as it was before the call, the number of calls of                *)
(* metadata.get_version it made, and, over the life of the object, the     *)
(* number of calls, the number of calls of metadata.get_version, how many  *)
(* of these returned, and the first string cached_version_string returned. *)

ProviderVersions ==
    {<<"1", ".", "0", ".", "0">>,
     <<"0", ".", "1", ".", "0", ".", "d", "e", "v", "1">>,
     <<"1", ".", "2", ".", "0", "a", "1">>,
     <<"a", "b", "c">>}

Prefixes == {<<>>, <<"v">>}

\* What a call of metadata.get_version('pbr') can find: a record of
\* pkg_resources or none, the environment, no metadata file, a repository.
Lookups ==
    UNION {get_version("pbr", provider, environ,
                       [PKG_INFO |-> None, METADATA |-> None], repo) :
           provider \in OptSet(ProviderVersions),
           environ \in {e \in Environs : e.OSLO_PACKAGE_VERSION = None},
           repo \in PackageRepos}

\* The record of a call that had outcome r.
Called(call, prefix, r) ==
    [call |-> call, prefix |-> prefix, result |-> r.result, before |-> inp,
     calls |-> out.calls + 1,
     looked |-> r.lookups,
     lookups |-> out.lookups + r.lookups,
     returned |-> out.returned
                    + (IF r.lookups = 1 /\ ~Raised(r.result) THEN 1 ELSE 0),
     first |-> IF /\ out.first = None
                  /\ call = "cached_version_string"
                  /\ ~Raised(r.result)
               THEN Some(r.result.val) ELSE out.first]

\* info = VersionInfo('pbr')
NewVersionInfo ==
    /\ pc = "idle"
    /\ pc' = "info"
    /\ inp' = VersionInfo("pbr")
    /\ out' = [call |-> "__init__", prefix |-> <<>>, result |-> Ok(<<>>),
               before |-> VersionInfo("pbr"), calls |-> 0, looked |-> 0,
               lookups |-> 0,
               returned |-> 0, first |-> None]

\* info.version_string()
VersionString ==
    /\ pc = "info"
    /\ out.calls < MaxCalls
    /\ \E got \in Lookups :
        \E r \in {VersionInfo_version_string(inp, got)} :
            /\ pc' = "info"
            /\ inp' = r.self
            /\ out' = Called("version_string", <<>>, r)

\* info.release_string()
ReleaseString ==
    /\ pc = "info"
    /\ out.calls < MaxCalls
    /\ \E got \in Lookups :
        \E r \in {VersionInfo_release_string(inp, got)} :
            /\ pc' = "info"
            /\ inp' = r.self
            /\ out' = Called("release_string", <<>>, r)

\* info.cached_version_string(prefix)
CachedVersionString ==
    /\ pc = "info"
    /\ out.calls < MaxCalls
    /\ \E got \in Lookups, prefix \in Prefixes :
        \E r \in {cached_version_string(inp, prefix, got)} :
            /\ pc' = "info"
            /\ inp' = r.self
            /\ out' = Called("cached_version_string", prefix, r)

-----------------------------------------------------------------------------

Init == pc = "idle" /\ inp = <<>> /\ out = <<>>

Return == pc # "idle" /\ pc' = "idle" /\ inp' = <<>> /\ out' = <<>>

-----------------------------------------------------------------------------
(* Properties of the ordering. *)

SameRelease(a, b) ==
    a.major = b.major /\ a.minor = b.minor /\ a.patch = b.patch

Compared == pc = "compare"

\* C7: at equal (major, minor, patch), comparing a version that has a
\* prerelease type with one that has a dev_count set (any value, 0 included)
\* raises TypeError in both directions.
C7_PrereleaseDevRaises ==
    (Compared /\ SameRelease(inp.a, inp.b)
        /\ inp.a.prerelease_type # None /\ inp.b.dev_count # None)
    => Raises(out.ab, "TypeError") /\ Raises(out.ba, "TypeError")

\* C8: where it does not raise, a < b is irreflexive, asymmetric and
\* transitive.
C8_StrictPartialOrder ==
    Compared =>
        /\ inp.a = inp.b => IsFalse(out.ab)
        /\ IsTrue(out.ab) /\ ~Raised(out.ba) => IsFalse(out.ba)
        /\ IsTrue(out.ab) =>
              \A c \in Versions :
                  IsTrue(__lt__(inp.b, c)) /\ ~Raised(__lt__(inp.a, c))
                  => IsTrue(__lt__(inp.a, c))

C8_Witness ==
    /\ Compared /\ IsTrue(out.ab) /\ IsFalse(out.ba)
    /\ SameRelease(inp.a, inp.b)
    /\ \E c \in Versions :
          SameRelease(inp.b, c) /\ IsTrue(__lt__(inp.b, c))
          /\ IsTrue(__lt__(inp.a, c))

\* alpha < beta < release candidate
Rank(type) ==
    IF type = <<"a">> THEN 1 ELSE IF type = <<"b">> THEN 2 ELSE 3

\* C21: for two prerelease versions with equal (major, minor, patch), a < b
\* is true exactly when (rank of type, number) of a is lexicographically
\* less than that of b, with rank a < b < rc; the comparison does not raise.
C21_PrereleaseRankOrder ==
    (Compared /\ SameRelease(inp.a, inp.b)
        /\ inp.a.prerelease_type # None /\ inp.b.prerelease_type # None)
    => /\ ~Raised(out.ab)
       /\ out.ab.val <=>
              \/ Rank(inp.a.prerelease_type[1]) < Rank(inp.b.prerelease_type[1])
              \/ /\ Rank(inp.a.prerelease_type[1])
                        = Rank(inp.b.prerelease_type[1])
                 /\ inp.a.prerelease[1] < inp.b.prerelease[1]

\* A beta with the higher number is less than a release candidate.
C21_Witness ==
    /\ Compared /\ SameRelease(inp.a, inp.b)
    /\ inp.a.prerelease_type = Some(<<"b">>)
    /\ inp.b.prerelease_type = Some(<<"r", "c">>)
    /\ inp.a.prerelease[1] > inp.b.prerelease[1]
    /\ IsTrue(out.ab) /\ IsFalse(out.ba)

\* C9: at equal (major, minor, patch), a version with a prerelease type or a
\* dev_count set (0 included) is less than the version with neither, and the
\* reverse comparison is false.
C9_MarkedLessThanRelease ==
    (Compared /\ SameRelease(inp.a, inp.b)
        /\ (inp.a.prerelease_type # None \/ inp.a.dev_count # None)
        /\ inp.b.prerelease_type = None /\ inp.b.dev_count = None)
    => IsTrue(out.ab) /\ IsFalse(out.ba)

\* C10: at equal (major, minor, patch), of two versions that both have a
\* dev_count the one with the smaller dev_count is less; with equal dev_count
\* and equal githash neither is less; with equal dev_count and different
\* githash the comparison raises TypeError.
C10_DevCountOrder ==
    (Compared /\ SameRelease(inp.a, inp.b)
        /\ inp.a.dev_count # None /\ inp.b.dev_count # None)
    => /\ inp.a.dev_count[1] < inp.b.dev_count[1] => IsTrue(out.ab)
       /\ (inp.a.dev_count = inp.b.dev_count /\ inp.a.githash = inp.b.githash)
            => IsFalse(out.ab) /\ IsFalse(out.ba)
       /\ (inp.a.dev_count = inp.b.dev_count /\ inp.a.githash # inp.b.githash)
            => Raises(out.ab, "TypeError")

-----------------------------------------------------------------------------
(* Properties of the version inference. *)

\* _calculate_target_version got a tag and a distance from
\* _get_revno_and_last_tag.
Calculated == pc = "calculate" /\ ~Raised(out.revno)

Distance == out.revno.val.distance

\* The version of the last tag ('0' when there is none).
LastTagVersion ==
    from_pip_string(IF Len(out.revno.val.tag) > 0 THEN out.revno.val.tag
                    ELSE <<"0">>).val

\* The symbols on the Sem-Ver lines of a commit range.
SemVerSymbols(changelog) ==
    UNION {{changelog[i].command[k] : k \in 1..Len(changelog[i].command)} :
           i \in {j \in 1..Len(changelog) :
                     changelog[j].header \in {"    sem-ver:", "    Sem-Ver:"}}}

\* The increment the directives of a commit range ask for.
Bumped(last, symbols) ==
    IF "api-break" \in symbols
    THEN SemanticVersion(last.major + 1, 0, 0, None, None, None, None).val
    ELSE IF "feature" \in symbols \/ "deprecation" \in symbols
    THEN SemanticVersion(last.major, last.minor + 1, 0,
                         None, None, None, None).val
    ELSE IF last.prerelease_type # None
    THEN SemanticVersion(last.major, last.minor, last.patch,
                         last.prerelease_type, Some(last.prerelease[1] + 1),
                         None, None).val
    ELSE SemanticVersion(last.major, last.minor, last.patch + 1,
                         None, None, None, None).val

\* computed = last_tag_version.increment(directives)
Computed == Bumped(LastTagVersion, SemVerSymbols(inp.repo.changelog))

DevResult(version) ==
    Ok(to_dev(version, Distance, inp.repo.last_commit))

\* C1 as stated: with distance > 0 the call fails with ValueError exactly
\* when a target is supplied and target < computed; otherwise the result is
\* (target if supplied, else computed).to_dev(distance, last commit hash).
C1_TargetLessThanComputed ==
    (Calculated /\ Distance > 0) =>
        IF inp.target_version # None
           /\ IsTrue(__lt__(inp.target_version[1], Computed))
        THEN Raises(out.result, "ValueError")
        ELSE out.result = DevResult(IF inp.target_version # None
                                    THEN inp.target_version[1] ELSE Computed)

\* C1 amended: with distance > 0 and no target the result is
\* computed.to_dev(distance, hash).  With a target, the call raises
\* TypeError when computed < target is undefined; it fails with ValueError
\* exactly when computed > target as the code evaluates it, that is when
\* computed differs from target and computed < target is false; otherwise
\* the result is target.to_dev(distance, hash).
C1_ComputedGreaterThanTarget ==
    (Calculated /\ Distance > 0) =>
        IF inp.target_version = None THEN out.result = DevResult(Computed)
        ELSE IF Raised(__lt__(Computed, inp.target_version[1]))
        THEN Raises(out.result, "TypeError")
        ELSE IF Computed # inp.target_version[1]
                /\ IsFalse(__lt__(Computed, inp.target_version[1]))
        THEN Raises(out.result, "ValueError")
        ELSE out.result = DevResult(inp.target_version[1])

\* A feature directive after the last tag, a target below the computed
\* version: the call has failed.
C1_Witness ==
    /\ Calculated /\ Distance > 0
    /\ inp.target_version # None
    /\ "feature" \in SemVerSymbols(inp.repo.changelog)
    /\ IsTrue(__lt__(inp.target_version[1], Computed))
    /\ Raises(out.result, "ValueError")

Tagged(log) == {i \in 1..Len(log) : version_tags(log[i]) # {}}

\* C3: at the first entry with a tag that parses, _get_revno_and_last_tag
\* returns the release_string of a parsed tag that no other parsed tag of the
\* entry exceeds, with the index of the entry; it does not fail, whatever
\* the tag set.
C3_MaxParsedTag ==
    (pc = "revno" /\ Tagged(inp.log) # {}) =>
        LET entry == Least(Tagged(inp.log))
        IN  \E highest \in version_tags(inp.log[entry]) :
                /\ \A tag \in version_tags(inp.log[entry]) :
                       ~IsTrue(__lt__(highest, tag))
                /\ out = Ok([tag |-> release_string(highest),
                             distance |-> entry - 1])

\* C4: when no entry has a tag that parses, _get_revno_and_last_tag returns
\* the empty tag with the number of log entries.
C4_UntaggedCount ==
    (pc = "revno" /\ Tagged(inp.log) = {}) =>
        out = Ok([tag |-> <<>>, distance |-> Len(inp.log)])

\* C5: the increment applied to the last tagged version is the one of the
\* most severe recognised symbol of the commit range: api-break gives
\* (major + 1, 0, 0); otherwise feature or deprecation gives
\* (major, minor + 1, 0); otherwise the patch, or for a prerelease the
\* prerelease serial, is bumped.  Other symbols change nothing.
C5_SeverityComposition ==
    pc = "increment" =>
        out.version = Bumped(inp.last, SemVerSymbols(inp.changelog))

\* An api-break together with a feature and an unrecognised symbol.
C5_Witness ==
    /\ pc = "increment"
    /\ {"api-break", "feature", "docs"} \subseteq SemVerSymbols(inp.changelog)
    /\ out.version.major = inp.last.major + 1
    /\ out.version.minor = 0

\* C6: when git cannot be started, or the working directory is not a
\* repository, get_version_from_git returns the empty string.
C6_NoGitEmptyString ==
    (pc = "git" /\ (~inp.repo.spawns \/ ~inp.repo.git_dir)) => out = Ok(<<>>)

-----------------------------------------------------------------------------
(* Properties of the version type and of the parser. *)

\* A version with both a prerelease type and a dev_count.
HasBoth(v) == v.prerelease_type # None /\ v.dev_count # None

Release(major, minor, patch) ==
    [major |-> major, minor |-> minor, patch |-> patch,
     prerelease_type |-> None, prerelease |-> None,
     dev_count |-> None, githash |-> None]

C24_PrereleaseGithashRaises ==
    (/\ pc = "construct"
     /\ inp.prerelease_type # None
     /\ inp.dev_count # None \/ inp.githash # None)
        => Raises(out, "ValueError")

\* C12: increment() with no flags keeps (major, minor, patch) and the
\* prerelease type of a prerelease version and adds one to its prerelease
\* number; on any other version it adds one to patch and the result has no
\* prerelease fields; the result never has a dev_count or a githash.
C12_DefaultIncrement ==
    (pc = "inc" /\ ~inp.minor /\ ~inp.major) =>
        /\ out.dev_count = None /\ out.githash = None
        /\ out.major = inp.v.major /\ out.minor = inp.v.minor
        /\ IF inp.v.prerelease_type # None
           THEN /\ out.patch = inp.v.patch
                /\ out.prerelease_type = inp.v.prerelease_type
                /\ out.prerelease = Some(inp.v.prerelease[1] + 1)
           ELSE /\ out.patch = inp.v.patch + 1
                /\ out.prerelease_type = None
                /\ out.prerelease = None

\* A prerelease version was incremented with no flags.
C12_Witness ==
    /\ pc = "inc" /\ ~inp.minor /\ ~inp.major
    /\ inp.v.prerelease_type # None
    /\ out.prerelease = Some(inp.v.prerelease[1] + 1)
    /\ out.patch = inp.v.patch

\* C13: increment(major=True), with or without minor=True, returns exactly
\* (major + 1, 0, 0) with no prerelease type or number, no dev_count and no
\* githash.
C13_MajorIncrement ==
    (pc = "inc" /\ inp.major) => out = Release(inp.v.major + 1, 0, 0)

\* A dev version with a non-zero minor was incremented with both flags.
C13_Witness ==
    /\ pc = "inc" /\ inp.major /\ inp.minor
    /\ inp.v.dev_count # None /\ inp.v.minor > 0
    /\ out = Release(inp.v.major + 1, 0, 0)

\* C14: for a version v with a prerelease type or a dev_count,
\* v.decrement() < v is true.
C14_DecrementIsLess ==
    (pc = "decrement"
        /\ (inp.v.prerelease_type # None \/ inp.v.dev_count # None))
    => IsTrue(__lt__(out, inp.v))

\* C15: from_pip_string(v.release_string()) returns a version equal to v.
C15_ReleaseStringRoundTrip ==
    pc = "roundtrip" => out.parsed = Ok(inp.v)

\* Positions i..j of s hold a dot-separated component made of digits only.
DigitComponent(s, i, j) ==
    /\ i <= j
    /\ i = 1 \/ s[i - 1] = "."
    /\ j = Len(s) \/ s[j + 1] = "."
    /\ \A k \in i..j : s[k] \in {Digits[d] : d \in 1..Len(Digits)}

NoDigitComponent(s) ==
    ~\E i, j \in 1..Len(s) : DigitComponent(s, i, j)

\* C16: from_pip_string raises ValueError for a string none of whose
\* dot-separated components consists of digits only.
C16_NoDigitComponentRaises ==
    (pc = "parse" /\ NoDigitComponent(inp.version_string))
    => Raises(out, "ValueError")

\* A string with digits and letters in its components, none digits only.
C16_Witness ==
    /\ pc = "parse" /\ NoDigitComponent(inp.version_string)
    /\ \E k \in 1..Len(inp.version_string) :
           isdigit_char(inp.version_string[k])
    /\ Raises(out, "ValueError")

\* C17: from_pip_string of the legacy forms X.Y.ZtN and X.YtN (t one of a,
\* b, rc) returns the version (X, Y, Z) (Z = 0 for X.YtN) with prerelease
\* type t and prerelease number N, the same as from_pip_string of the
\* canonical X.Y.Z.0tN, and its release_string is X.Y.Z.0tN.
C17_LegacyPrerelease ==
    pc = "parse" =>
        \A t \in Releases, type \in PrereleaseTypes, n \in 0..MaxPrerelease :
            (\/ inp.version_string = Legacy3(t, type, n)
             \/ t[3] = 0 /\ inp.version_string = Legacy2(t, type, n))
            => /\ out = Ok([major |-> t[1], minor |-> t[2], patch |-> t[3],
                            prerelease_type |-> Some(type),
                            prerelease |-> Some(n),
                            dev_count |-> None, githash |-> None])
               /\ out = from_pip_string(Canonical(t, type, n))
               /\ release_string(out.val) = Canonical(t, type, n)

\* The legacy X.YrcN was parsed.
C17_Witness ==
    /\ pc = "parse" /\ ~Raised(out)
    /\ \E t \in Releases, n \in 1..MaxPrerelease :
           /\ t[3] = 0
           /\ inp.version_string = Legacy2(t, <<"r", "c">>, n)
           /\ out.val.prerelease_type = Some(<<"r", "c">>)
           /\ out.val.prerelease = Some(n)

\* C19: in from_pip_string a token of digits N after major.minor.patch is
\* the dev_count N, for every N >= 0, and a following g<hash> token gives
\* the githash; the result is rendered X.Y.Z.devN.g<hash>.
C19_LegacyDevCount ==
    pc = "parse" =>
        \A t \in Releases, n \in 0..MaxDevCount, hash \in OptSet(GitHashes) :
            inp.version_string = LegacyDev(t, n, hash)
            => /\ out = Ok([major |-> t[1], minor |-> t[2], patch |-> t[3],
                            prerelease_type |-> None, prerelease |-> None,
                            dev_count |-> Some(n), githash |-> hash])
               /\ hash # None =>
                      release_string(out.val) =
                          Dotted(t) \o <<".", "d", "e", "v">> \o str_nat(n)
                              \o <<".", "g">> \o hash[1]

\* C20: from_pip_string raises ValueError for a string with a numeric
\* component whose remaining tokens have no recognised form, an empty token
\* included.
C20_MalformedRaisesValueError ==
    (pc = "parse" /\ inp.version_string \in MalformedStrings)
    => Raises(out, "ValueError")

\* The override of the environment: PBR_VERSION, else OSLO_PACKAGE_VERSION.
Override(environ) ==
    IF truthy_str(environ.PBR_VERSION) THEN environ.PBR_VERSION
    ELSE IF truthy_str(environ.OSLO_PACKAGE_VERSION)
    THEN environ.OSLO_PACKAGE_VERSION
    ELSE None

\* The Version of the package metadata (PKG-INFO if present, else METADATA)
\* when its Name is the package name.
MetadataVersion(files) ==
    LET found == IF files.PKG_INFO # None THEN files.PKG_INFO
                 ELSE files.METADATA
    IN  IF found # None /\ found[1].Name = Some("pbr")
           /\ truthy_str(found[1].Version)
        THEN found[1].Version ELSE None

\* C18: get_package_version returns the first available of the override of
\* the environment, the Version of the matching package metadata and the
\* version from git; with none of the first two and no git or no repository
\* it raises the explicit 'requires an sdist tarball or git repository'
\* error.
C18_FirstAvailableOrExplicitError ==
    pc = "package" =>
        IF Override(inp.environ) # None
        THEN out = Ok(Override(inp.environ)[1])
        ELSE IF MetadataVersion(inp.files) # None
        THEN out = Ok(MetadataVersion(inp.files)[1])
        ELSE IF ~inp.repo.spawns \/ ~inp.repo.git_dir
        THEN Raises(out, "Exception")
        ELSE out \in get_version_from_git(inp.pre_version, inp.repo)

\* The rendering of v on a numeric base with the separators given: the
\* prerelease segment when a prerelease type is set, the dev segment when a
\* dev_count is set, the hash when a githash is set.
Rendered(v, base, separator, hash_separator) ==
    base
    \o (IF v.prerelease_type # None
        THEN separator \o v.prerelease_type[1] \o str_int(v.prerelease[1])
        ELSE <<>>)
    \o (IF v.dev_count # None
        THEN separator \o <<"d", "e", "v">> \o str_int(v.dev_count[1])
                 \o (IF v.githash # None
                     THEN hash_separator \o v.githash[1] ELSE <<>>)
        ELSE <<>>)

\* C22: rpm_string() is rendered on decrement().brief_string() with '.' as
\* the separator when the version has a prerelease type or a dev_count set,
\* and is brief_string() otherwise; debian_string() is rendered on
\* brief_string() with '~' before the prerelease or dev segment and '+g'
\* before the hash.
C22_RpmDebianStrings ==
    /\ pc = "rpm" =>
          out = IF inp.v.prerelease_type # None \/ inp.v.dev_count # None
                THEN Rendered(inp.v, brief_string(decrement(inp.v)),
                              <<".">>, <<"+", "g">>)
                ELSE brief_string(inp.v)
    /\ pc = "debian" =>
          out = Rendered(inp.v, brief_string(inp.v), <<"~">>, <<"+", "g">>)

\* C23: version_tuple() returns (major, minor, patch, kind, serial): kind
\* alpha, beta or candidate with the prerelease number when a prerelease
\* type is set; kind dev with dev_count - 1 when a dev_count is set; kind
\* final with serial 0 when neither is set.
C23_VersionTuple ==
    pc = "tuple" =>
        out = Ok(<<inp.v.major, inp.v.minor, inp.v.patch>>
                 \o (IF inp.v.prerelease_type # None
                     THEN <<CASE inp.v.prerelease_type[1] = <<"a">> -> "alpha"
                              [] inp.v.prerelease_type[1] = <<"b">> -> "beta"
                              [] OTHER -> "candidate",
                            inp.v.prerelease[1]>>
                     ELSE IF inp.v.dev_count # None
                     THEN <<"dev", inp.v.dev_count[1] - 1>>
                     ELSE <<"final", 0>>))

\* A call of cached_version_string that returned: the first to return gives
\* its prefix followed by version_string(), every later one the string the
\* first returned.
CachedStringStable ==
    (/\ pc = "info"
     /\ out.call = "cached_version_string"
     /\ ~Raised(out.result))
        => /\ out.result.val = out.first[1]
           /\ out.before._cached_version = None =>
                 out.result.val = out.prefix \o brief_string(inp._semantic[1])
           /\ out.before._cached_version # None =>
                 out.result.val = out.before._cached_version[1]

\* C25 as stated: cached_version_string keeps returning the string its first
\* call returned, whatever the prefix, and metadata.get_version is called at
\* most once on one VersionInfo object over any sequence of version_string,
\* release_string and cached_version_string calls.
C25_LookupAtMostOnce ==
    /\ CachedStringStable
    /\ pc = "info" => out.lookups <= 1

\* C25: cached_version_string keeps returning the string its first call
\* returned, whatever the prefix; over any sequence of version_string,
\* release_string and cached_version_string calls on one VersionInfo object
\* at most one call of metadata.get_version returns, none is made once one
\* has returned, and a call in which metadata.get_version raises raises the
\* same exception and leaves the object as it was.
C25_LookupReturnsAtMostOnce ==
    /\ CachedStringStable
    /\ pc = "info" =>
          /\ out.returned <= 1
          /\ out.returned = 1 <=> inp._semantic # None
          /\ out.before._semantic # None => out.looked = 0
          /\ Raised(out.result) => inp = out.before

\* A later call of cached_version_string, with another prefix than the first,
\* on an object whose first lookup had raised.
C25_Witness ==
    /\ pc = "info"
    /\ out.call = "cached_version_string"
    /\ ~Raised(out.result)
    /\ out.before._cached_version # None
    /\ out.result.val # out.prefix \o brief_string(inp._semantic[1])
    /\ out.lookups = 2
    /\ out.returned = 1

NextRender == RpmString \/ DebianString \/ VersionTuple \/ Return

SpecRender == Init /\ [][NextRender]_vars

NextAlgebra ==
    \/ Construct
    \/ Increment
    \/ Decrement
    \/ ToDev
    \/ ToRelease
    \/ FromPipString
    \/ Return

SpecAlgebra == Init /\ [][NextAlgebra]_vars

NextParse == FromPipString \/ RoundTrip \/ Return

SpecParse == Init /\ [][NextParse]_vars

NextOrder == Compare \/ Return

SpecOrder == Init /\ [][NextOrder]_vars

NextHistory ==
    \/ RevnoAndLastTag
    \/ IncrementLastTag
    \/ CalculateTargetVersion
    \/ GetVersionFromGit
    \/ Return

SpecHistory == Init /\ [][NextHistory]_vars

\* C26: a version from_pip_string returns has prerelease_type None, 'a', 'b'
\* or 'rc'; a string with a prerelease token of other letters is rejected
\* with ValueError.
C26_KnownPrereleaseType ==
    pc = "parse" =>
        /\ ~Raised(out) =>
              out.val.prerelease_type \in OptSet(PrereleaseTypes)
        /\ inp.version_string \in UnknownTypeStrings =>
              Raises(out, "ValueError")

\* C27: for every version v and every combination of the minor and major
\* flags, v < v.increment(minor, major) is defined and true.
C27_IncrementIsGreater ==
    pc = "inc" => IsTrue(__lt__(inp.v, out))

\* A prerelease version incremented with no flag is less than the result, a
\* prerelease of the same release.
C27_Witness ==
    /\ pc = "inc"
    /\ ~inp.minor /\ ~inp.major
    /\ inp.v.prerelease_type # None
    /\ SameRelease(inp.v, out)
    /\ IsTrue(__lt__(inp.v, out))

\* The last tag is a final release: it has no prerelease type and no
\* dev_count.
FinalTag ==
    /\ Len(out.revno.val.tag) > 0
    /\ LastTagVersion.prerelease_type = None
    /\ LastTagVersion.dev_count = None

\* C28: with no target, a last tag that is a final release T and a distance
\* d > 0, the version R that _calculate_target_version returns has dev_count
\* d, the (major, minor, patch) of T.increment(directives) and no prerelease
\* type, and T < R and R < T.increment(directives) are defined and true.
C28_DevBetweenTagAndIncrement ==
    (Calculated /\ Distance > 0 /\ inp.target_version = None /\ FinalTag) =>
        /\ ~Raised(out.result)
        /\ out.result.val.dev_count = Some(Distance)
        /\ out.result.val.prerelease_type = None
        /\ SameRelease(out.result.val, Computed)
        /\ IsTrue(__lt__(LastTagVersion, out.result.val))
        /\ IsTrue(__lt__(out.result.val, Computed))

\* A feature directive after a final release tag, no target: a dev version
\* of the next minor release has been returned.
C28_Witness ==
    /\ Calculated /\ Distance > 0 /\ inp.target_version = None /\ FinalTag
    /\ "feature" \in SemVerSymbols(inp.repo.changelog)
    /\ ~Raised(out.result)
    /\ out.result.val.minor = LastTagVersion.minor + 1
    /\ out.result.val.dev_count = Some(Distance)
    /\ IsTrue(__lt__(out.result.val, Computed))

\* C29: for two versions a and b on which no comparison raises, a > b iff
\* b < a, a >= b iff (a == b or b < a), and a <= b iff (a == b or a < b).
C29_DerivedAgree ==
    (/\ pc = "derived"
     /\ ~Raised(out.lt) /\ ~Raised(out.lt_reversed)
     /\ ~Raised(out.gt) /\ ~Raised(out.ge) /\ ~Raised(out.le))
        => /\ out.gt.val <=> out.lt_reversed.val
           /\ out.ge.val <=> (out.eq \/ out.lt_reversed.val)
           /\ out.le.val <=> (out.eq \/ out.lt.val)

\* C30: for every string s that from_pip_string accepts, the string
\* c = from_pip_string(s).release_string() is accepted and
\* from_pip_string(c).release_string() is c.
C30_CanonicalIdempotent ==
    (pc = "canonical" /\ ~Raised(out.parsed)) =>
        /\ ~Raised(out.reparsed)
        /\ out.recanonical = Ok(out.canonical)

\* A legacy dev string with a hash: its canonical string differs from it and
\* is its own canonical string.
C30_Witness ==
    /\ pc = "canonical" /\ ~Raised(out.parsed)
    /\ out.parsed.val.githash # None
    /\ out.canonical # inp.version_string
    /\ out.recanonical = Ok(out.canonical)

NextInfo ==
    \/ NewVersionInfo
    \/ VersionString
    \/ ReleaseString
    \/ CachedVersionString
    \/ Return

SpecInfo == Init /\ [][NextInfo]_vars

NextDerived == CompareDerived \/ Return

SpecDerived == Init /\ [][NextDerived]_vars

NextCanonical == Canonicalise \/ Return

SpecCanonical == Init /\ [][NextCanonical]_vars

NextPackage == GetPackageVersion \/ Return

SpecPackage == Init /\ [][NextPackage]_vars

Next ==
    \/ NextOrder
    \/ NextHistory
    \/ NextAlgebra
    \/ NextParse
    \/ NextPackage
    \/ NextRender
    \/ NextInfo
    \/ NextDerived
    \/ NextCanonical

Spec == Init /\ [][Next]_vars

====
